---- MODULE Spec2Model ----
(***************************************************************************)
(* A model of ArjunBot (src/bot.py): the four tasks.loop check-in loops,   *)
(* the slash-command handlers and the user_data mapping with its           *)
(* persisted document.                                                     *)
(*                                                                         *)
(* Time is an integer number of seconds since a Monday 00:00:00 UTC.       *)
(* A probability is kept in hundredths (0.3 is 30); a sample of            *)
(* random.random(), which lies in [0.0, 1.0), is a number in 0..99.        *)
(* A Python str holding a datetime in ISO format is the tuple of its       *)
(* fields; None is the empty tuple.                                        *)
(*                                                                         *)
(* The event loop is cooperative: a handler runs alone from one await to   *)
(* the next.  `active` names the task that is running synchronous code;    *)
(* no other action, and no passage of time, is possible until it suspends  *)
(* or ends.                                                                *)
(***************************************************************************)
EXTENDS Integers, Sequences, FiniteSets, TLC

VARIABLES
    now,             \* the wall clock (UTC)
    entries,         \* self.user_data: the dict's entry array, in insertion order (0: a deleted entry)
    user_data,       \* self.user_data: key -> record
    disk,            \* user_data.json
    pc,              \* per loop: "sleep", "run", "fetch", "send" or "failed"
    iter,            \* per loop: the iterator of self.user_data.items()
    cur,             \* per loop: the locals of the suspended loop body
    next_iteration,  \* per loop: when the next tick is due
    active,          \* the task running synchronous code, or "none"
    sent,            \* history: the check-in messages delivered
    failed,          \* history: the dispatches that raised at fetch_user or send
    last_eval,       \* history: per loop, its latest evaluation of a user
    last_due,        \* history: per user, the latest due activity evaluation of this tracking session
    last_sent,       \* history: per user, the latest activity message delivered in this tracking session
    customised,      \* history: the users whose config a setter changed since opt-in
    ncmd,            \* history: the commands handled so far that changed the mapping
    replying,        \* the users whose on_message handler awaits the language model
    evaluated,       \* history: per loop, the evaluations of its current (or latest) tick
    opted,           \* history: the users whose latest /begin or /stop was a /begin
    defaults,        \* self.default_config: its value, and the users whose config is that same object
    memory,          \* self.llm_handler.memory
    fault,           \* what open('user_data.json', 'w') raises, or "none"
    save_errors,     \* history: the save_data calls that raised, and whether the handler caught it
    msg,             \* per user: the locals of an on_message suspended at channel.send
    handled          \* history: the latest on_message of a tracked user that ended (see Ended)

vars == <<now, entries, user_data, disk, pc, iter, cur, next_iteration, active,
          sent, failed, last_eval, last_due, last_sent, customised, ncmd, replying, evaluated, opted, defaults,
          memory, fault, save_errors, msg, handled>>

---------------------------------------------------------------------------
(* Bounds *)

NumUsers == 2
MaxMinutes == 1
MaxCommands == 1
MaxSessionCommands == 3

Users == 1..NumUsers

Loops == {"morning_check", "evening_review", "activity_check", "weekly_review_check"}
DailyLoops == {"morning_check", "evening_review"}

None == <<>>

---------------------------------------------------------------------------
(* datetime *)

DateTime(d, h, m, s) == ((d * 24 + h) * 60 + m) * 60 + s

hour(t) == (t \div 3600) % 24
minute(t) == (t \div 60) % 60
second(t) == t % 60
weekday(t) == (t \div 86400) % 7
date(t) == t \div 86400

isoformat(t) == <<date(t), hour(t), minute(t), second(t)>>

fromisoformat(s) == DateTime(s[1], s[2], s[3], s[4])

PyStr(s) == [type |-> "str", value |-> s]

\* datetime.timezone(offset): offset must be a timedelta, anything else raises TypeError
timezone(offset) ==
    IF offset.type = "timedelta"
    THEN [raised |-> FALSE, utcoffset |-> offset.value]
    ELSE [raised |-> TRUE, utcoffset |-> 0]

\* The zone database: the UTC offset of the zones the model names, in seconds
ZoneOffset(name) ==
    CASE name = "UTC" -> 0
      [] name = "US/Pacific" -> 0 - 8 * 3600
      [] OTHER -> 0

ValidZones == {"UTC", "US/Pacific"}

\* The bot starts on a Sunday at 08:59:00 UTC
StartTime == DateTime(6, 8, 59, 0)

---------------------------------------------------------------------------
(* The user mapping and its persisted document *)

default_config ==
    [morning_check_hour |-> 9,
     evening_review_hour |-> 21,
     weekly_review_day |-> "SUNDAY",
     weekly_review_hour |-> 18,
     activity_check_interval |-> 30,
     activity_check_probability |-> 30,
     timezone |-> "UTC",
     clockify_api_key |-> None,
     clockify_enabled |-> FALSE]

\* A new record that carries a customised config and a last_activity_check
NewRecordCustomised(t) ==
    [joined_date |-> isoformat(t),
     weekly_plans |-> <<>>,
     daily_logs |-> <<>>,
     last_interaction |-> None,
     last_activity_check |-> isoformat(t),
     config |-> [default_config EXCEPT !.activity_check_interval = 15]]

\* The record add_user stores for a new user at time t
NewRecord(t) ==
    [joined_date |-> isoformat(t),
     weekly_plans |-> <<>>,
     daily_logs |-> <<>>,
     last_interaction |-> None,
     last_activity_check |-> None,
     config |-> default_config]

\* The keys of the dict in iteration order
LiveKeys(es) == SelectSeq(es, LAMBDA k : k # 0)

\* json.dump(self.user_data, f): the document holds the live keys in order
json_dump(es, ud) == [exists |-> TRUE, keys |-> LiveKeys(es), data |-> ud]

NoFile == [exists |-> FALSE, keys |-> <<>>, data |-> <<>>]

\* open('user_data.json', 'w') has emptied the file and json.dump has written
\* the first n records of doc when the process dies: a prefix of the document
Truncated(doc, n) ==
    [exists |-> TRUE, keys |-> SubSeq(doc.keys, 1, n),
     data |-> [k \in {doc.keys[i] : i \in 1..n} |-> doc.data[k]],
     truncated |-> TRUE]

\* load_data: the parsed document, or {} when there is no file; json.load
\* raises JSONDecodeError on a prefix of a document, and load_data lets it pass
load_data(doc) ==
    IF ~doc.exists
    THEN [entries |-> <<>>, user_data |-> <<>>, raised |-> "none"]
    ELSE IF "truncated" \in DOMAIN doc
    THEN [entries |-> <<>>, user_data |-> <<>>, raised |-> "JSONDecodeError"]
    ELSE [entries |-> doc.keys, user_data |-> doc.data, raised |-> "none"]

\* Documents an earlier run of the bot left behind.  User 1 had set the
\* activity interval to 15 minutes and was last found due 14 minutes before
\* this start; user 2 had just opted in.
PreviousRecord1 ==
    [NewRecord(StartTime - 3600) EXCEPT
        !.config.activity_check_interval = 15,
        !.last_activity_check = isoformat(StartTime - 14 * 60)]

PreviousRecord2 == NewRecord(StartTime - 60)

\* A record whose stored timezone names no zone
MalformedRecord == [NewRecord(StartTime - 7200) EXCEPT !.config.timezone = "???"]

PreviousDocs ==
    {NoFile,
     json_dump(<<1>>, 1 :> PreviousRecord1),
     json_dump(<<1, 2>>, (1 :> PreviousRecord1) @@ (2 :> PreviousRecord2)),
     json_dump(<<1, 2>>, (1 :> MalformedRecord) @@ (2 :> PreviousRecord2))}

\* The config of a new record, were it self.default_config itself
dict_alias(d) == [value |-> d, same_object |-> TRUE]

\* self.default_config.copy(): a new dict with the same items
dict_copy(d) == [value |-> d, same_object |-> FALSE]

\* add_user: a new record, appended to the dict, unless the key is there
add_user(es, ud, user_id, t) ==
    IF user_id \in DOMAIN ud
    THEN [entries |-> es, user_data |-> ud]
    ELSE [entries |-> Append(es, user_id),
          user_data |-> [k \in DOMAIN ud \cup {user_id} |->
                            IF k = user_id THEN NewRecord(t) ELSE ud[k]]]

\* A /stop that keeps the record
del_user_soft(es, ud, user_id) == [entries |-> es, user_data |-> ud]

\* del self.user_data[user_id]: the entry stays in the array, marked deleted
del_user(es, ud, user_id) ==
    [entries |-> [i \in DOMAIN es |-> IF es[i] = user_id THEN 0 ELSE es[i]],
     user_data |-> [k \in DOMAIN ud \ {user_id} |-> ud[k]]]

---------------------------------------------------------------------------
(* The iterator of self.user_data.items() *)

dict_iter(es, ud) ==
    [pos |-> 1, used |-> Cardinality(DOMAIN ud), len |-> Cardinality(DOMAIN ud)]

\* The first live entry at or after position i, or Len(es) + 1
RECURSIVE NextLive(_, _)
NextLive(es, i) ==
    IF i > Len(es) THEN i
    ELSE IF es[i] # 0 THEN i
    ELSE NextLive(es, i + 1)

\* next(it): a key, StopIteration, or the RuntimeError of a dict changed during iteration
dict_next(it, es, ud) ==
    LET i == NextLive(es, it.pos) IN
    IF it.used # Cardinality(DOMAIN ud)
    THEN [result |-> "RuntimeError", key |-> 0, iter |-> it]
    ELSE IF i > Len(es)
    THEN [result |-> "StopIteration", key |-> 0, iter |-> it]
    ELSE IF it.len = 0
    THEN [result |-> "RuntimeError", key |-> 0, iter |-> it]
    ELSE [result |-> "item", key |-> es[i],
          iter |-> [it EXCEPT !.pos = i + 1, !.len = it.len - 1]]

---------------------------------------------------------------------------
(* The predicates of the four loops *)

\* A loop body that sends on every tick, whatever the time
DailyCheckEveryTick(config, key, t) == "fire"

\* morning_check / evening_review: one user's evaluation up to the dispatch.
\* key is the config key of the loop's hour.
DailyCheck(config, key, t) ==
    LET user_tz == timezone(PyStr(config.timezone))
        user_time == t + user_tz.utcoffset
    IN  IF user_tz.raised THEN "error"
        ELSE IF hour(user_time) = config[key] /\ minute(user_time) = 0
        THEN "fire"
        ELSE "skip"

day_map ==
    [d \in {"MON", "TUE", "WED", "THU", "FRI", "SAT", "SUN"} |->
        CASE d = "MON" -> 0 [] d = "TUE" -> 1 [] d = "WED" -> 2 [] d = "THU" -> 3
          [] d = "FRI" -> 4 [] d = "SAT" -> 5 [] d = "SUN" -> 6]

\* weekly_review_check: one user's evaluation up to the dispatch
WeeklyCheck(config, t) ==
    LET user_tz == timezone(PyStr(config.timezone))
        user_time == t + user_tz.utcoffset
    IN  IF user_tz.raised THEN "error"
        ELSE IF config.weekly_review_day \notin DOMAIN day_map THEN "error"
        ELSE IF /\ weekday(user_time) = day_map[config.weekly_review_day]
                /\ hour(user_time) = config.weekly_review_hour
                /\ minute(user_time) = 0
        THEN "fire"
        ELSE "skip"

\* activity_check: whether enough time has passed since the last check
IsDue(last_check, current_time, interval) ==
    \/ last_check = None
    \/ current_time - fromisoformat(last_check) >= interval * 60

\* activity_check: random.random() < config["activity_check_probability"]
SelectedInclusive(sample, probability) == sample <= probability

Selected(sample, probability) == sample < probability

\* The samples of random.random() the model draws
Samples == {0, 29, 30}

\* The same assignment, were current_time read on the clock of a zone west of UTC
touch_local(ud, user_id, current_time) ==
    [ud EXCEPT ![user_id].last_activity_check =
                    isoformat(current_time + ZoneOffset("US/Pacific"))]

\* An activity check that leaves last_activity_check as it was
touch_none(ud, user_id, current_time) == ud

\* self.user_data[user_id]["last_activity_check"] = current_time.isoformat()
touch(ud, user_id, current_time) ==
    [ud EXCEPT ![user_id].last_activity_check = isoformat(current_time)]

---------------------------------------------------------------------------
(* The values of the message handler.  A str is the sequence of its tokens  *)
(* (a sentinel, a brace, a run of other characters); a dict is its keys     *)
(* and the value of its one item.                                           *)

Text(tokens) == [type |-> "str", keys |-> <<>>, value |-> tokens]

Dict(key, tokens) == [type |-> "dict", keys |-> <<key>>, value |-> tokens]

NoneValue == [type |-> "NoneType", keys |-> <<>>, value |-> <<>>]

\* if obj:
Truthy(obj) ==
    CASE obj.type = "str" -> obj.value # <<>>
      [] obj.type = "dict" -> obj.keys # <<>>
      [] obj.type = "NoneType" -> FALSE
      [] OTHER -> TRUE

\* sub in obj: a substring of a str, a key of a dict
Contains(obj, sub) ==
    CASE obj.type = "str" -> \E i \in DOMAIN obj.value : obj.value[i] = sub
      [] obj.type = "dict" -> \E i \in DOMAIN obj.keys : obj.keys[i] = sub
      [] OTHER -> FALSE

\* str(obj), which Messageable.send applies to its content
str(obj) ==
    IF obj.type = "dict"
    THEN Text(<<"{'", obj.keys[1], "': '">> \o obj.value \o <<"'}">>)
    ELSE obj

\* s.find(sub, start): the position of the first sub at or after start, 0 for none
RECURSIVE find(_, _, _)
find(tokens, sub, start) ==
    IF start > Len(tokens) THEN 0
    ELSE IF tokens[start] = sub THEN start
    ELSE find(tokens, sub, start + 1)

\* s.replace(sub, ""): every occurrence of sub is taken out
RECURSIVE replace(_, _)
replace(tokens, sub) ==
    IF sub = <<>> \/ Len(tokens) < Len(sub) THEN tokens
    ELSE IF SubSeq(tokens, 1, Len(sub)) = sub
    THEN replace(SubSeq(tokens, Len(sub) + 1, Len(tokens)), sub)
    ELSE <<tokens[1]>> \o replace(Tail(tokens), sub)

\* s.strip(): the white space at both ends is taken off
RECURSIVE strip(_)
strip(tokens) ==
    IF tokens = <<>> THEN tokens
    ELSE IF tokens[1] = " " THEN strip(Tail(tokens))
    ELSE IF tokens[Len(tokens)] = " " THEN strip(SubSeq(tokens, 1, Len(tokens) - 1))
    ELSE tokens

\* on_message, from `if "MEMORY_UPDATE:" in response` to the send: the slice
\* from the sentinel to the first "}" after it is replaced by "", then the
\* END_CONVERSATION marker
StripSentinels(obj) ==
    LET start == find(obj.value, "MEMORY_UPDATE:", 1)
        end == find(obj.value, "}", start)
        memory_update == IF end = 0 THEN <<>> ELSE SubSeq(obj.value, start, end)
        first == IF Contains(obj, "MEMORY_UPDATE:")
                 THEN Text(strip(replace(obj.value, memory_update)))
                 ELSE obj
    IN  IF Contains(first, "END_CONVERSATION: true")
        THEN [response |-> Text(strip(replace(first.value, <<"END_CONVERSATION: true">>))),
              end_conversation |-> TRUE]
        ELSE IF Contains(first, "END_CONVERSATION: false")
        THEN [response |-> Text(strip(replace(first.value, <<"END_CONVERSATION: false">>))),
              end_conversation |-> FALSE]
        ELSE [response |-> first, end_conversation |-> FALSE]

---------------------------------------------------------------------------
(* LLMHandler *)

\* What self.client.messages.create(...) does: it returns a Message, or raises
Message(tokens) == [type |-> "Message", keys |-> <<>>, value |-> tokens]

APIError == [type |-> "APIError", keys |-> <<>>, value |-> <<>>]

\* `await obj` raises TypeError unless obj is awaitable; self.client is an
\* anthropic.Anthropic, whose create is an ordinary function
Awaitable(obj) == obj.type = "coroutine"

Fallback == Dict("content", <<"sorry, having trouble processing that rn. could you try again?">>)

\* _get_claude_response: the awaited result of create, or, when the call or
\* the await raised, the dict of the except clause
get_claude_response(created) ==
    IF created.type = "APIError" THEN Fallback
    ELSE IF ~Awaitable(created) THEN Fallback
    ELSE created

\* _process_memory_instructions: delete, then update, then add
process_memory_instructions(mem, memory_instructions) ==
    LET deleted == [k \in DOMAIN mem \ memory_instructions.delete |-> mem[k]]
        updated == [k \in DOMAIN deleted \cup DOMAIN memory_instructions.update |->
                       IF k \in DOMAIN memory_instructions.update
                       THEN memory_instructions.update[k] ELSE deleted[k]]
    IN  [k \in DOMAIN updated \cup DOMAIN memory_instructions.add |->
            IF k \in DOMAIN memory_instructions.add
            THEN memory_instructions.add[k] ELSE updated[k]]

---------------------------------------------------------------------------
(* ClockifyHandler *)

\* setup: False without an api key, and when a request raises or is refused
setup(api_key, reachable) == api_key # None /\ reachable

\* get_time_entries: the entries, or [] when the request raises or is refused
get_time_entries(fetched) == IF fetched = "entries" THEN <<"entry">> ELSE <<>>

generate_daily_report(time_entries) ==
    IF time_entries = <<>> THEN <<"No time entries recorded for today.">>
    ELSE <<"## Daily Time Report">>

generate_weekly_report(time_entries) ==
    IF time_entries = <<>> THEN <<"No time entries recorded for this week.">>
    ELSE <<"## Weekly Time Report">>

\* response += f"\n\n{report}": defined for a str, TypeError for a dict
Add(obj, report) ==
    IF obj.type = "str"
    THEN [raised |-> "none", value |-> Text(obj.value \o <<"\n\n">> \o report)]
    ELSE [raised |-> "TypeError", value |-> obj]

\* process_evening_review_response, for the record of the author
process_evening_review_response(record, created, reachable, fetched) ==
    LET response == get_claude_response(created)
        config == record.config
        enabled == config.clockify_enabled /\ config.clockify_api_key # None
        report == generate_daily_report(get_time_entries(fetched))
        appended == Add(response, report)
    IN  IF enabled /\ setup(config.clockify_api_key, reachable)
        THEN [raised |-> appended.raised, response |-> appended.value,
              clockify |-> IF fetched = "entries" THEN "ok" ELSE "fetch_failed"]
        ELSE [raised |-> "none", response |-> response,
              clockify |-> IF enabled THEN "setup_failed" ELSE "off"]

\* The locals of on_message: the response to send, and, for the history, the
\* check-in the message answers, what the API call did and how the time
\* tracker fared
NoMessage ==
    [response |-> NoneValue, answers |-> "none", created |-> NoneValue, clockify |-> "off"]

\* The record of an on_message that has ended: what it raised, what it sent
Finished(user_id, locals, raised, relayed) ==
    [user |-> user_id, answers |-> locals.answers,
     created |-> locals.created, clockify |-> locals.clockify,
     raised |-> raised, relayed |-> relayed]

\* No on_message of a user still tracked has ended
NoneHandled == Finished(0, NoMessage, "none", NoneValue)

---------------------------------------------------------------------------
(* History records *)

NoDue == [set |-> FALSE, at |-> 0, interval |-> 0]

NoEval ==
    [user |-> 0, at |-> 0, config |-> default_config, last_check |-> None,
     verdict |-> "none", outcome |-> "none", prev_due |-> NoDue]

NoLocals == [user |-> 0, current_time |-> 0]

HourKey(L) == IF L = "morning_check" THEN "morning_check_hour" ELSE "evening_review_hour"

---------------------------------------------------------------------------
(* Initial state: ArjunBot.__init__, with or without a document on disk *)

Init ==
    /\ now = StartTime
    /\ disk \in PreviousDocs
    /\ entries = load_data(disk).entries
    /\ user_data = load_data(disk).user_data
    /\ pc = [L \in Loops |-> "sleep"]
    /\ iter = [L \in Loops |-> dict_iter(<<>>, <<>>)]
    /\ cur = [L \in Loops |-> NoLocals]
    /\ next_iteration = [L \in Loops |-> StartTime]
    /\ active = "none"
    /\ sent = {}
    /\ failed = {}
    /\ last_eval = [L \in Loops |-> NoEval]
    /\ last_due = [u \in Users |->
                      IF u \in DOMAIN user_data /\ user_data[u].last_activity_check # None
                      THEN [set |-> TRUE,
                            at |-> fromisoformat(user_data[u].last_activity_check),
                            interval |-> user_data[u].config.activity_check_interval]
                      ELSE NoDue]
    /\ last_sent = [u \in Users |-> NoDue]
    /\ customised = {u \in DOMAIN user_data : user_data[u].config # default_config}
    /\ ncmd = 0
    /\ replying = {}
    /\ evaluated = [L \in Loops |-> {}]
    /\ opted = DOMAIN load_data(disk).user_data
    /\ defaults = [value |-> default_config, sharers |-> {}]
    /\ memory = <<>>
    /\ fault = "none"
    /\ save_errors = {}
    /\ msg = [u \in Users |-> NoMessage]
    /\ handled = NoneHandled

---------------------------------------------------------------------------
(* save_data *)

\* The exceptions open('user_data.json', 'w') raises when the file cannot be
\* opened for writing
SaveFaults == {"PermissionError"}

\* The handlers that call save_data inside a try statement whose except clause
\* names Exception: activity_check (bot.py:164-190), begin_tracking through
\* add_user (bot.py:234-257), set_timezone (bot.py:405-411)
SaveInTry(op) == op \in {"activity_check", "begin_tracking", "set_timezone"}

\* save_data, called by handler op with the mapping as it is to be after the
\* step: the document is written, or open raises and the file stays as it was
Saved(op, es, ud) ==
    /\ disk' = IF fault = "none" THEN json_dump(es, ud) ELSE disk
    /\ save_errors' = IF fault = "none" THEN save_errors
                       ELSE save_errors \cup {[op |-> op, raised |-> fault,
                                                caught |-> SaveInTry(op)]}

---------------------------------------------------------------------------
(* The loops *)

\* setup_hook starts the loops in this order, and the event loop wakes tasks
\* that are due at the same time in the order they went to sleep
LoopOrder ==
    [L \in Loops |->
        CASE L = "morning_check" -> 1 [] L = "evening_review" -> 2
          [] L = "activity_check" -> 3 [] L = "weekly_review_check" -> 4]

\* A sleeping loop whose time has come
Ready(L) == pc[L] = "sleep" /\ now >= next_iteration[L]

\* No task is running and no loop is due: the event loop waits for an event
Idle == active = "none" /\ \A L \in Loops : ~Ready(L)

\* tasks.loop(minutes=1): a tick starts when its time has come and the previous
\* tick has ended; the body begins by creating the iterator of the for statement
LoopStart(L) ==
    /\ active = "none"
    /\ Ready(L)
    /\ \A L2 \in Loops :
          Ready(L2) =>
              /\ next_iteration[L2] >= next_iteration[L]
              /\ next_iteration[L2] = next_iteration[L] => LoopOrder[L2] >= LoopOrder[L]
    /\ pc' = [pc EXCEPT ![L] = "run"]
    /\ iter' = [iter EXCEPT ![L] = dict_iter(entries, user_data)]
    /\ next_iteration' = [next_iteration EXCEPT ![L] = @ + 60]
    /\ active' = L
    /\ evaluated' = [evaluated EXCEPT ![L] = {}]
    /\ UNCHANGED <<now, entries, user_data, disk, cur, sent, failed, last_eval, last_due, last_sent,
                   customised, ncmd, replying, opted, defaults,
                   memory, fault, save_errors, msg, handled>>

\* The for statement failed with RuntimeError outside the try: the task ends
LoopRaise(L) ==
    /\ pc' = [pc EXCEPT ![L] = "failed"]
    /\ active' = "none"
    /\ UNCHANGED <<now, entries, user_data, disk, iter, cur, next_iteration, sent,
                   failed, last_eval, last_due, last_sent, customised, ncmd, replying, evaluated, opted, defaults,
                   memory, fault, save_errors, msg, handled>>

\* The for statement is exhausted: the tick ends and the loop sleeps
LoopEnd(L) ==
    /\ pc' = [pc EXCEPT ![L] = "sleep"]
    /\ next_iteration' = [next_iteration EXCEPT ![L] = IF now > @ THEN now ELSE @]
    /\ active' = "none"
    /\ UNCHANGED <<now, entries, user_data, disk, iter, cur, sent, failed, last_eval,
                   last_due, last_sent, customised, ncmd, replying, evaluated, opted, defaults,
                   memory, fault, save_errors, msg, handled>>

\* The body of morning_check, evening_review or weekly_review_check for one
\* user, up to the await of fetch_user or to the end of the body
FixedBody(L, user_id, it) ==
    LET config == user_data[user_id].config
        verdict == IF L \in DailyLoops
                   THEN DailyCheck(config, HourKey(L), now)
                   ELSE WeeklyCheck(config, now)
        fire == verdict = "fire"
    IN  /\ iter' = [iter EXCEPT ![L] = it]
        /\ pc' = [pc EXCEPT ![L] = IF fire THEN "fetch" ELSE "run"]
        /\ cur' = [cur EXCEPT ![L] =
                      IF fire THEN [user |-> user_id, current_time |-> now] ELSE @]
        /\ active' = IF fire THEN "none" ELSE L
        /\ last_eval' = [last_eval EXCEPT ![L] =
                            [user |-> user_id, at |-> now, config |-> config,
                             last_check |-> None, verdict |-> verdict,
                             outcome |-> IF fire THEN "pending" ELSE "none",
                             prev_due |-> NoDue]]
        /\ evaluated' = [evaluated EXCEPT ![L] =
                            @ \cup {[user |-> user_id, at |-> now]}]
        /\ UNCHANGED <<now, entries, user_data, disk, next_iteration, sent, failed,
                       last_due, last_sent, customised, ncmd, replying, opted, defaults,
                       memory, fault, save_errors, msg, handled>>

\* The body of activity_check for one user, up to the await of fetch_user or
\* to the end of the body
ActivityBody(user_id, it, sample) ==
    LET L == "activity_check"
        config == user_data[user_id].config
        last_check == user_data[user_id].last_activity_check
        current_time == now
        due == IsDue(last_check, current_time, config.activity_check_interval)
        selected == due /\ Selected(sample, config.activity_check_probability)
        updated == touch(user_data, user_id, current_time)
    IN  /\ iter' = [iter EXCEPT ![L] = it]
        /\ pc' = [pc EXCEPT ![L] = IF selected THEN "fetch" ELSE "run"]
        /\ cur' = [cur EXCEPT ![L] =
                      IF selected
                      THEN [user |-> user_id, current_time |-> current_time]
                      ELSE @]
        /\ active' = IF selected THEN "none" ELSE L
        /\ user_data' = IF due /\ ~selected THEN updated ELSE user_data
        /\ IF due /\ ~selected
           THEN Saved("activity_check", entries, updated)
           ELSE UNCHANGED <<disk, save_errors>>
        /\ last_due' = IF due
                       THEN [last_due EXCEPT ![user_id] =
                                [set |-> TRUE, at |-> current_time,
                                 interval |-> config.activity_check_interval]]
                       ELSE last_due
        /\ last_eval' = [last_eval EXCEPT ![L] =
                            [user |-> user_id, at |-> current_time, config |-> config,
                             last_check |-> last_check,
                             verdict |-> IF due THEN "due" ELSE "not_due",
                             outcome |-> IF selected THEN "pending"
                                         ELSE IF due THEN "unselected" ELSE "none",
                             prev_due |-> last_due[user_id]]]
        /\ evaluated' = [evaluated EXCEPT ![L] =
                            @ \cup {[user |-> user_id, at |-> current_time]}]
        /\ UNCHANGED <<now, entries, next_iteration, sent, failed, last_sent, customised, ncmd,
                       replying, opted, defaults, memory, fault, msg, handled>>

\* One round of the for statement: next(iterator), then the body for that user
LoopNext(L) ==
    /\ active = L
    /\ pc[L] = "run"
    /\ LET nx == dict_next(iter[L], entries, user_data) IN
        IF nx.result = "RuntimeError" THEN LoopRaise(L)
        ELSE IF nx.result = "StopIteration" THEN LoopEnd(L)
        ELSE IF L = "activity_check"
        THEN \E sample \in Samples : ActivityBody(nx.key, nx.iter, sample)
        ELSE FixedBody(L, nx.key, nx.iter)

\* The exceptions fetch_user and send raise at the messaging boundary
FetchErrors == {"NotFound"}
SendErrors == {"Forbidden"}

\* Only the first except clause: except discord.NotFound
CaughtNotFoundOnly(exc) == exc = "NotFound"

\* The classes derived from Exception among the exceptions the model names
IsException(exc) == exc \in {"NotFound", "Forbidden", "KeyError", "TypeError"}

\* except discord.NotFound: print(...)  /  except Exception as e: print(...)
Caught(exc) == exc = "NotFound" \/ IsException(exc)

\* await self.fetch_user(int(user_id)) returns the user, and the body goes on
\* to await user.send(...); or it raises discord.NotFound, which the body's
\* except clause prints, and the for statement goes on
FetchUserReturns(L) ==
    /\ Idle
    /\ pc[L] = "fetch"
    /\ \E result \in {"ok"} \cup FetchErrors :
        LET found == result = "ok" IN
        /\ pc' = [pc EXCEPT ![L] = IF found THEN "send"
                                   ELSE IF Caught(result) THEN "run" ELSE "failed"]
        /\ active' = IF ~found /\ Caught(result) THEN L ELSE "none"
        /\ last_eval' = [last_eval EXCEPT ![L].outcome = IF found THEN @ ELSE "failed"]
        /\ failed' = IF found THEN failed
                      ELSE failed \cup {[loop |-> L, user |-> cur[L].user,
                                         at |-> cur[L].current_time]}
    /\ UNCHANGED <<now, entries, user_data, disk, iter, cur, next_iteration, sent,
                   last_due, last_sent, customised, ncmd, replying, evaluated, opted, defaults,
                   memory, fault, save_errors, msg, handled>>

\* await user.send(...) returns and the body runs to its end (activity_check:
\* the update of last_activity_check and save_data, or the KeyError of a user
\* deleted meanwhile); or send raises, and the except clause prints
SendReturns(L) ==
    /\ Idle
    /\ pc[L] = "send"
    /\ \E result \in {"ok"} \cup SendErrors :
        LET ok == result = "ok"
            user_id == cur[L].user
            update == ok /\ L = "activity_check" /\ user_id \in DOMAIN user_data
            updated == touch(user_data, user_id, cur[L].current_time)
        IN  /\ sent' = IF ok
                       THEN sent \cup {[n |-> Cardinality(sent) + 1, loop |-> L,
                                        user |-> user_id, at |-> cur[L].current_time,
                                        config |-> last_eval[L].config]}
                       ELSE sent
            /\ failed' = IF ok THEN failed
                          ELSE failed \cup {[loop |-> L, user |-> user_id,
                                             at |-> cur[L].current_time]}
            /\ user_data' = IF update THEN updated ELSE user_data
            /\ IF update
               THEN Saved("activity_check", entries, updated)
               ELSE UNCHANGED <<disk, save_errors>>
            /\ last_eval' = [last_eval EXCEPT ![L].outcome = IF ok THEN "sent" ELSE "failed"]
            /\ last_sent' = IF update
                            THEN [last_sent EXCEPT ![user_id] =
                                     [set |-> TRUE, at |-> cur[L].current_time,
                                      interval |-> last_eval[L].config.activity_check_interval]]
                            ELSE last_sent
            /\ pc' = [pc EXCEPT ![L] = IF ok \/ Caught(result) THEN "run" ELSE "failed"]
            /\ active' = IF ok \/ Caught(result) THEN L ELSE "none"
    /\ UNCHANGED <<now, entries, iter, cur, next_iteration, last_due, customised, ncmd, replying,
                   evaluated, opted, defaults, memory, fault, msg, handled>>

\* A minute passes while the event loop waits; a sleeping loop wakes at its time
Advance ==
    /\ Idle
    /\ now + 60 <= StartTime + MaxMinutes * 60
    /\ \A L \in Loops : pc[L] = "sleep" => now + 60 <= next_iteration[L]
    /\ now' = now + 60
    /\ UNCHANGED <<entries, user_data, disk, pc, iter, cur, next_iteration, active,
                   sent, failed, last_eval, last_due, last_sent, customised, ncmd, replying, evaluated, opted, defaults,
                   memory, fault, save_errors, msg, handled>>

---------------------------------------------------------------------------
(* The slash commands.  A handler mutates and saves before its first await, *)
(* so each is one step.                                                     *)

Handled == Idle /\ UNCHANGED <<active, replying, evaluated, memory, fault, msg>>

\* The model handles at most MaxCommands commands and messages that change the
\* mapping while the loops run, and MaxSessionCommands of them when the loops
\* were never started
Budget == IF \A L \in Loops : pc[L] = "off" THEN MaxSessionCommands ELSE MaxCommands

Counted == ncmd < Budget /\ ncmd' = ncmd + 1

\* A /begin that does not look for an existing record: it stores a new one
begin_tracking_unchecked(user_id) ==
    /\ Handled
    /\ LET added == add_user(entries, user_data, user_id, now)
           stored == [k \in DOMAIN added.user_data |->
                         IF k = user_id THEN NewRecord(now) ELSE added.user_data[k]]
       IN  /\ Counted
           /\ entries' = added.entries
           /\ user_data' = stored
           /\ Saved("begin_tracking", added.entries, stored)
    /\ opted' = opted \cup {user_id}
    /\ UNCHANGED <<now, pc, iter, cur, next_iteration, sent, failed, last_eval, last_due, last_sent,
                   customised, handled, defaults>>

\* /begin
begin_tracking(user_id) ==
    /\ Handled
    /\ LET added == add_user(entries, user_data, user_id, now)
           stored == [added.user_data EXCEPT
                         ![user_id].config = dict_copy(defaults.value).value]
       IN
        IF user_id \in DOMAIN user_data
        THEN UNCHANGED <<entries, user_data, disk, ncmd, save_errors>>
        ELSE /\ Counted
             /\ entries' = added.entries
             /\ user_data' = stored
             /\ Saved("begin_tracking", added.entries, stored)
    /\ defaults' = IF user_id \notin DOMAIN user_data /\ dict_copy(defaults.value).same_object
                   THEN [defaults EXCEPT !.sharers = @ \cup {user_id}]
                   ELSE defaults
    /\ opted' = opted \cup {user_id}
    /\ UNCHANGED <<now, pc, iter, cur, next_iteration, sent, failed, last_eval, last_due, last_sent,
                   customised, handled>>

\* /stop
stop(user_id) ==
    /\ Handled
    /\ LET left == del_user(entries, user_data, user_id) IN
        IF user_id \in DOMAIN user_data
        THEN /\ Counted
             /\ entries' = left.entries
             /\ user_data' = left.user_data
             /\ Saved("stop", left.entries, left.user_data)
        ELSE UNCHANGED <<entries, user_data, disk, ncmd, save_errors>>
    /\ last_due' = [last_due EXCEPT ![user_id] = NoDue]
    /\ last_sent' = [last_sent EXCEPT ![user_id] = NoDue]
    /\ handled' = IF handled.user = user_id THEN NoneHandled ELSE handled
    /\ opted' = opted \ {user_id}
    /\ defaults' = [defaults EXCEPT !.sharers = @ \ {user_id}]
    /\ customised' = customised \ {user_id}
    /\ UNCHANGED <<now, pc, iter, cur, next_iteration, sent, failed, last_eval>>

\* A setter stores the config as changed and saves
Store(op, user_id, config) ==
    LET shared == user_id \in defaults.sharers
        updated == [u \in DOMAIN user_data |->
                       IF u = user_id \/ (shared /\ u \in defaults.sharers)
                       THEN [user_data[u] EXCEPT !.config = config]
                       ELSE user_data[u]]
    IN  /\ Counted
        /\ user_data' = updated
        /\ Saved(op, entries, updated)
        /\ customised' = customised \cup {user_id}
        /\ defaults' = IF shared THEN [defaults EXCEPT !.value = config] ELSE defaults
        /\ UNCHANGED <<opted, handled>>

NothingStored ==
    UNCHANGED <<user_data, disk, customised, ncmd, opted, defaults, save_errors, handled>>

\* A /set_time that stores the hour before it looks at it
set_time_unchecked(user_id, check_type, h) ==
    /\ Handled
    /\ IF user_id \notin DOMAIN user_data THEN NothingStored
       ELSE Store("set_time", user_id,
                  [user_data[user_id].config EXCEPT !.morning_check_hour = h])
    /\ UNCHANGED <<now, entries, pc, iter, cur, next_iteration, sent, failed, last_eval, last_due, last_sent>>

\* /set_time TYPE HOUR
set_time(user_id, check_type, h) ==
    /\ Handled
    /\ IF user_id \notin DOMAIN user_data THEN NothingStored
       ELSE IF h < 0 \/ h > 23 THEN NothingStored
       ELSE IF check_type \notin {"morning_check", "evening_review"} THEN NothingStored
       ELSE IF check_type = "morning_check"
       THEN Store("set_time", user_id,
                  [user_data[user_id].config EXCEPT !.morning_check_hour = h])
       ELSE Store("set_time", user_id,
                  [user_data[user_id].config EXCEPT !.evening_review_hour = h])
    /\ UNCHANGED <<now, entries, pc, iter, cur, next_iteration, sent, failed, last_eval, last_due, last_sent>>

\* /set_weekly_review DAY HOUR
set_weekly_review(user_id, day, h) ==
    /\ Handled
    /\ IF user_id \notin DOMAIN user_data THEN NothingStored
       ELSE Store("set_weekly_review", user_id,
                  [user_data[user_id].config EXCEPT
                      !.weekly_review_day = day, !.weekly_review_hour = h])
    /\ UNCHANGED <<now, entries, pc, iter, cur, next_iteration, sent, failed, last_eval, last_due, last_sent>>

\* /set_activity_check INTERVAL PROBABILITY
set_activity_check(user_id, interval, probability) ==
    /\ Handled
    /\ IF user_id \notin DOMAIN user_data THEN NothingStored
       ELSE Store("set_activity_check", user_id,
                  [user_data[user_id].config EXCEPT
                      !.activity_check_interval = interval,
                      !.activity_check_probability = probability])
    /\ UNCHANGED <<now, entries, pc, iter, cur, next_iteration, sent, failed, last_eval, last_due, last_sent>>

\* /set_timezone TIMEZONE: the try block builds datetime.timezone(timezone)
\* before it stores anything
set_timezone(user_id, tz) ==
    /\ Handled
    /\ IF user_id \notin DOMAIN user_data THEN NothingStored
       ELSE IF timezone(PyStr(tz)).raised THEN NothingStored
       ELSE Store("set_timezone", user_id, [user_data[user_id].config EXCEPT !.timezone = tz])
    /\ UNCHANGED <<now, entries, pc, iter, cur, next_iteration, sent, failed, last_eval, last_due, last_sent>>

\* The history of the message handlers is kept for the bot whose loops were
\* never started
Ended(finished) ==
    handled' = IF \A L \in Loops : pc[L] = "off" THEN finished ELSE handled

\* /set_clockify API_KEY: the key is stored when ClockifyHandler(api_key).setup()
\* succeeds
set_clockify(user_id, api_key, reachable) ==
    /\ Handled
    /\ IF user_id \notin DOMAIN user_data THEN NothingStored
       ELSE IF setup(api_key, reachable)
       THEN Store("set_clockify", user_id,
                  [user_data[user_id].config EXCEPT
                      !.clockify_api_key = api_key, !.clockify_enabled = TRUE])
       ELSE NothingStored
    /\ UNCHANGED <<now, entries, pc, iter, cur, next_iteration, sent, failed, last_eval, last_due, last_sent>>

\* A /disable_clockify that also forgets the stored key
disable_clockify_forget(user_id) ==
    /\ Handled
    /\ IF user_id \notin DOMAIN user_data THEN NothingStored
       ELSE Store("disable_clockify", user_id,
                  [user_data[user_id].config EXCEPT
                      !.clockify_enabled = FALSE, !.clockify_api_key = None])
    /\ UNCHANGED <<now, entries, pc, iter, cur, next_iteration, sent, failed, last_eval, last_due, last_sent>>

\* /disable_clockify
disable_clockify(user_id) ==
    /\ Handled
    /\ IF user_id \notin DOMAIN user_data THEN NothingStored
       ELSE Store("disable_clockify", user_id,
                  [user_data[user_id].config EXCEPT !.clockify_enabled = FALSE])
    /\ UNCHANGED <<now, entries, pc, iter, cur, next_iteration, sent, failed, last_eval, last_due, last_sent>>

\* on_message, a direct message: for a tracked author last_interaction is set
\* in memory and the response is built, without a suspension (the API call
\* and the requests of the time tracker are blocking calls); the handler then
\* awaits message.channel.send(response), or ends with what the building raised
on_message(user_id, answers, created, reachable, fetched) ==
    /\ Idle
    /\ user_id \notin replying
    /\ IF user_id \notin DOMAIN user_data
       THEN UNCHANGED <<user_data, disk, ncmd, replying, memory, save_errors, msg, handled>>
       ELSE LET touched == [user_data EXCEPT ![user_id].last_interaction = isoformat(now)]
                memory_instructions == None
                processed == process_evening_review_response(touched[user_id], created,
                                                             reachable, fetched)
                stripped == StripSentinels(processed.response)
                locals == [response |-> stripped.response, answers |-> answers,
                           created |-> created, clockify |-> processed.clockify]
            IN  /\ Counted
                /\ user_data' = touched
                /\ memory' = IF memory_instructions # None
                             THEN process_memory_instructions(memory, memory_instructions)
                             ELSE memory
                /\ IF processed.raised # "none"
                   THEN /\ Ended(Finished(user_id, locals, processed.raised, NoneValue))
                        /\ UNCHANGED <<disk, save_errors, replying, msg>>
                   ELSE IF Truthy(stripped.response)
                   THEN /\ replying' = replying \cup {user_id}
                        /\ msg' = [msg EXCEPT ![user_id] = locals]
                        /\ UNCHANGED <<disk, save_errors, handled>>
                   ELSE /\ Saved("on_message", entries, touched)
                        /\ Ended(Finished(user_id, locals, "none", NoneValue))
                        /\ UNCHANGED <<replying, msg>>
    /\ UNCHANGED <<now, entries, pc, iter, cur, next_iteration, active, sent, failed,
                   last_eval, last_due, last_sent, customised, evaluated, opted, defaults, fault>>

\* on_message resumes: the send has delivered str(response) and save_data
\* writes the mapping; or the send raised, and nothing is written
ReplyReturns(user_id) ==
    /\ Idle
    /\ user_id \in replying
    /\ replying' = replying \ {user_id}
    /\ msg' = [msg EXCEPT ![user_id] = NoMessage]
    /\ \E result \in {"ok"} \cup SendErrors :
        IF result = "ok"
        THEN /\ Ended(Finished(user_id, msg[user_id], "none", str(msg[user_id].response)))
             /\ Saved("on_message", entries, user_data)
        ELSE /\ Ended(Finished(user_id, msg[user_id], result, NoneValue))
             /\ UNCHANGED <<disk, save_errors>>
    /\ UNCHANGED <<now, entries, user_data, pc, iter, cur, next_iteration, active, sent,
                   failed, last_eval, last_due, last_sent, customised, ncmd, evaluated, opted, defaults,
                   memory, fault>>

---------------------------------------------------------------------------
(* The inputs the model draws *)

HourInputs == {9}
CheckTypeInputs == {"morning_check", "evening_review"}
DayInputs == {"SUN"}
IntervalInputs == {15}
ProbabilityInputs == {0}
ZoneInputs == {"US/Pacific"}
AnswerInputs == {"evening_review"}
CreatedInputs == {APIError}

Next ==
    \/ \E L \in Loops : LoopStart(L)
    \/ \E L \in Loops : LoopNext(L)
    \/ \E L \in Loops : FetchUserReturns(L)
    \/ \E L \in Loops : SendReturns(L)
    \/ Advance
    \/ \E u \in Users : begin_tracking(u)
    \/ \E u \in Users : stop(u)
    \/ \E u \in Users, c \in CheckTypeInputs, h \in HourInputs : set_time(u, c, h)
    \/ \E u \in Users, d \in DayInputs, h \in HourInputs : set_weekly_review(u, d, h)
    \/ \E u \in Users, i \in IntervalInputs, p \in ProbabilityInputs :
            set_activity_check(u, i, p)
    \/ \E u \in Users, z \in ZoneInputs : set_timezone(u, z)
    \/ \E u \in Users, a \in AnswerInputs, c \in CreatedInputs :
            on_message(u, a, c, FALSE, "error")
    \/ \E u \in Users : ReplyReturns(u)

Spec == Init /\ [][Next]_vars

---------------------------------------------------------------------------
(* The document can no longer be written *)

\* From now on open('user_data.json', 'w') raises
DiskFails ==
    /\ Idle
    /\ fault = "none"
    /\ fault' \in SaveFaults
    /\ UNCHANGED <<now, entries, user_data, disk, pc, iter, cur, next_iteration, active,
                   sent, failed, last_eval, last_due, last_sent, customised, ncmd, replying, evaluated,
                   opted, defaults, memory, save_errors, msg, handled>>

NextFault ==
    \/ Next
    \/ DiskFails

SpecFault == Init /\ [][NextFault]_vars

---------------------------------------------------------------------------
(* The process dies and is started again *)

\* The process is killed while the event loop waits, or inside the save_data
\* of a handler that saves the mapping as it is (a setter given the stored
\* value, the end of on_message)
Crash ==
    /\ Idle
    /\ \/ disk' = disk
       \/ /\ DOMAIN user_data # {}
          /\ \E n \in 0..Len(LiveKeys(entries)) :
                disk' = Truncated(json_dump(entries, user_data), n)
    /\ active' = "down"
    /\ pc' = [L \in Loops |-> "down"]
    /\ UNCHANGED <<now, entries, user_data, iter, cur, next_iteration, sent, failed,
                   last_eval, last_due, last_sent, customised, ncmd, replying, evaluated, opted,
                   defaults, memory, fault, save_errors, msg, handled>>

\* ArjunBot() is constructed again: __init__ calls load_data.  The model
\* follows the new process no further.
Restart ==
    /\ active = "down"
    /\ LET loaded == load_data(disk) IN
        /\ active' = IF loaded.raised = "none" THEN "restarted" ELSE loaded.raised
        /\ entries' = loaded.entries
        /\ user_data' = loaded.user_data
        /\ opted' = DOMAIN loaded.user_data
    /\ replying' = {}
    /\ msg' = [u \in Users |-> NoMessage]
    /\ memory' = <<>>
    /\ defaults' = [value |-> default_config, sharers |-> {}]
    /\ UNCHANGED <<now, disk, pc, iter, cur, next_iteration, sent, failed, last_eval,
                   last_due, last_sent, customised, ncmd, evaluated, fault, save_errors, handled>>

---------------------------------------------------------------------------
(* The handlers alone: the bot before setup_hook has started the loops.     *)
(* The handlers are called with any argument of the parameter's type,       *)
(* inside or outside the range the option declares.                         *)

InitCommands ==
    /\ now = StartTime
    /\ disk \in PreviousDocs
    /\ entries = load_data(disk).entries
    /\ user_data = load_data(disk).user_data
    /\ pc = [L \in Loops |-> "off"]
    /\ iter = [L \in Loops |-> dict_iter(<<>>, <<>>)]
    /\ cur = [L \in Loops |-> NoLocals]
    /\ next_iteration = [L \in Loops |-> StartTime]
    /\ active = "none"
    /\ sent = {}
    /\ failed = {}
    /\ last_eval = [L \in Loops |-> NoEval]
    /\ last_due = [u \in Users |-> NoDue]
    /\ last_sent = [u \in Users |-> NoDue]
    /\ customised = {u \in DOMAIN user_data : user_data[u].config # default_config}
    /\ ncmd = 0
    /\ replying = {}
    /\ evaluated = [L \in Loops |-> {}]
    /\ opted = DOMAIN load_data(disk).user_data
    /\ defaults = [value |-> default_config, sharers |-> {}]
    /\ memory = <<>>
    /\ fault = "none"
    /\ save_errors = {}
    /\ msg = [u \in Users |-> NoMessage]
    /\ handled = NoneHandled

HourArguments == {9, 24}
CheckTypeArguments == {"morning_check", "evening_review", "lunch"}
IntervalArguments == {15, 5}
ProbabilityArguments == {0, 150}
ZoneArguments == {"US/Pacific", "???"}
KeyArguments == {<<"key">>}

NextCommands ==
    \/ \E u \in Users : begin_tracking(u)
    \/ \E u \in Users : stop(u)
    \/ \E u \in Users, c \in CheckTypeArguments, h \in HourArguments : set_time(u, c, h)
    \/ \E u \in Users, d \in DayInputs, h \in HourArguments : set_weekly_review(u, d, h)
    \/ \E u \in Users, i \in IntervalArguments, p \in ProbabilityArguments :
            set_activity_check(u, i, p)
    \/ \E u \in Users, z \in ZoneArguments : set_timezone(u, z)
    \/ \E u \in Users, k \in KeyArguments, r \in BOOLEAN : set_clockify(u, k, r)
    \/ \E u \in Users : disable_clockify(u)
    \/ \E u \in Users, a \in AnswerInputs, c \in CreatedInputs :
            on_message(u, a, c, FALSE, "error")
    \/ \E u \in Users : ReplyReturns(u)

SpecCommands == InitCommands /\ [][NextCommands]_vars

---------------------------------------------------------------------------
(* The direct messages: the message handler with what the language model    *)
(* and the time tracker can do, next to the commands that decide its path   *)

\* Responses of the language model: plain, and with a memory update of the
\* form the prompt asks for followed by the end marker
PlainText == <<"kk, sounds good">>

DirectiveText ==
    <<"kk, noted", " ", "MEMORY_UPDATE:", "{",
      "\"add\":", "{", "\"goal\": \"ship\"", "}", ",",
      "\"update\":", "{", "\"plan\": \"rest\"", "}", ",",
      "\"delete\":", "[\"old\"]",
      "}", " ", "END_CONVERSATION: true">>

\* The memory instructions DirectiveText spells out
DirectiveInstructions ==
    [add |-> ("goal" :> "ship"), update |-> ("plan" :> "rest"), delete |-> {"old"}]

AnswerArguments == {"evening_review", "weekly_review_check"}
CreatedArguments == {APIError, Message(PlainText), Message(DirectiveText)}
FetchArguments == {"entries", "error"}

NextMessages ==
    \/ \E u \in Users : stop(u)
    \/ \E u \in Users, k \in KeyArguments, r \in BOOLEAN : set_clockify(u, k, r)
    \/ \E u \in Users : disable_clockify(u)
    \/ \E u \in Users, a \in AnswerArguments, c \in CreatedArguments,
          r \in BOOLEAN, f \in FetchArguments : on_message(u, a, c, r, f)
    \/ \E u \in Users : ReplyReturns(u)

SpecMessages == InitCommands /\ [][NextMessages]_vars

---------------------------------------------------------------------------
(* The activity check over several intervals: the bot started on a document *)
(* in which user 1 has chosen an interval of one or of two minutes, so that *)
(* an interval elapses within the minutes the model runs                    *)

\* The record of a user who opted in an hour ago and set the interval
FrequentRecord(interval) ==
    [NewRecord(StartTime - 3600) EXCEPT !.config.activity_check_interval = interval]

FrequentIntervals == {1, 2}

FrequentDocs == {json_dump(<<1>>, 1 :> FrequentRecord(i)) : i \in FrequentIntervals}

InitActivity ==
    /\ now = StartTime
    /\ disk \in FrequentDocs
    /\ entries = load_data(disk).entries
    /\ user_data = load_data(disk).user_data
    /\ pc = [L \in Loops |-> "sleep"]
    /\ iter = [L \in Loops |-> dict_iter(<<>>, <<>>)]
    /\ cur = [L \in Loops |-> NoLocals]
    /\ next_iteration = [L \in Loops |-> StartTime]
    /\ active = "none"
    /\ sent = {}
    /\ failed = {}
    /\ last_eval = [L \in Loops |-> NoEval]
    /\ last_due = [u \in Users |-> NoDue]
    /\ last_sent = [u \in Users |-> NoDue]
    /\ customised = DOMAIN user_data
    /\ ncmd = 0
    /\ replying = {}
    /\ evaluated = [L \in Loops |-> {}]
    /\ opted = DOMAIN load_data(disk).user_data
    /\ defaults = [value |-> default_config, sharers |-> {}]
    /\ memory = <<>>
    /\ fault = "none"
    /\ save_errors = {}
    /\ msg = [u \in Users |-> NoMessage]
    /\ handled = NoneHandled

NextActivity ==
    \/ \E L \in Loops : LoopStart(L)
    \/ \E L \in Loops : LoopNext(L)
    \/ \E L \in Loops : FetchUserReturns(L)
    \/ \E L \in Loops : SendReturns(L)
    \/ Advance
    \/ \E u \in Users : begin_tracking(u)
    \/ \E u \in Users : stop(u)
    \/ \E u \in Users, i \in FrequentIntervals, p \in ProbabilityInputs :
            set_activity_check(u, i, p)

SpecActivity == InitActivity /\ [][NextActivity]_vars

NextCrash ==
    \/ NextCommands
    \/ Crash
    \/ Restart

SpecCrash == InitCommands /\ [][NextCrash]_vars

---------------------------------------------------------------------------
(* Notions the properties share *)

\* The time of evaluation e on the clock of the zone its config names
LocalTime(e) == e.at + ZoneOffset(e.config.timezone)

\* Loop L's latest evaluation ended with a message delivered
Delivered(L) ==
    \E m \in sent : m.loop = L /\ m.user = last_eval[L].user /\ m.at = last_eval[L].at

\* Loop L's latest evaluation is over and its dispatch, if any, did not raise
Settled(L) ==
    /\ last_eval[L].user # 0
    /\ last_eval[L].outcome \notin {"pending", "failed"}

\* This step ends an evaluation by activity_check that found the user due
DueEvaluationEnds ==
    /\ last_eval'["activity_check"] # last_eval["activity_check"]
    /\ last_eval'["activity_check"].verdict = "due"
    /\ last_eval'["activity_check"].outcome \in {"unselected", "sent", "failed"}

\* After this step the user of activity_check's latest evaluation has
\* last_activity_check at the evaluation's time, in memory and on disk
CheckTimeStored ==
    LET e == last_eval'["activity_check"] IN
    /\ user_data'[e.user].last_activity_check = isoformat(e.at)
    /\ disk' = json_dump(entries', user_data')

---------------------------------------------------------------------------
(* C1: the morning check, and likewise the evening review, delivers at most *)
(* one message to a user per calendar day of the user's zone while the      *)
(* user's configured hour and timezone stay the same.                       *)

C1_NoDuplicateDaily ==
    \A m1, m2 \in sent :
        ( /\ m1.loop \in DailyLoops
          /\ m2.loop = m1.loop
          /\ m2.user = m1.user
          /\ m2.config[HourKey(m1.loop)] = m1.config[HourKey(m1.loop)]
          /\ m2.config.timezone = m1.config.timezone
          /\ date(LocalTime(m2)) = date(LocalTime(m1)) )
        => m1 = m2

\* The morning loop has evaluated a user at the user's configured hour, minute 0
C1_Witness ==
    LET e == last_eval["morning_check"] IN
    /\ e.user # 0
    /\ hour(LocalTime(e)) = e.config.morning_check_hour
    /\ minute(LocalTime(e)) = 0
    /\ pc["morning_check"] = "sleep"

---------------------------------------------------------------------------
(* C2: a user tracked with an unchanged configuration since before the      *)
(* minute configured_hour:00 of the day has been sent a morning message     *)
(* (resp. an evening message) of that day once the loop's tick of that      *)
(* minute has ended, unless the dispatch itself raised.                     *)

C2_NoMissedDaily ==
    \A L \in DailyLoops : \A u \in DOMAIN user_data :
        LET config == user_data[u].config
            matching == DateTime(date(now), config[HourKey(L)], 0, 0)
                            - ZoneOffset(config.timezone)
        IN  ( /\ u \notin customised
              /\ fromisoformat(user_data[u].joined_date) < matching
              /\ pc[L] = "sleep"
              /\ next_iteration[L] > matching
              /\ ~\E f \in failed : f.loop = L /\ f.user = u )
            => \E m \in sent : m.loop = L /\ m.user = u /\ date(m.at) = date(now)

---------------------------------------------------------------------------
(* C3: an evaluation of a user by the morning check (resp. the evening      *)
(* review) at time t of the user's zone delivers a message if and only if   *)
(* t.hour is the configured hour and t.minute is 0.                         *)

C3_DailyPredicate ==
    \A L \in DailyLoops :
        LET e == last_eval[L] IN
        Settled(L) =>
            ( Delivered(L) <=>
                /\ hour(LocalTime(e)) = e.config[HourKey(L)]
                /\ minute(LocalTime(e)) = 0 )

---------------------------------------------------------------------------
(* C4: an evaluation of a user by the weekly review check delivers the      *)
(* weekly-review message if and only if the user's local weekday is the     *)
(* configured weekly_review_day, the local hour is weekly_review_hour and   *)
(* the local minute is 0; for the config copied at opt-in as for one set    *)
(* by set_weekly_review.                                                    *)

\* The weekday a stored weekly_review_day names (7: none)
WeekdayNamed(day) ==
    IF day \in DOMAIN day_map THEN day_map[day]
    ELSE IF day = "SUNDAY" THEN 6
    ELSE 7

C4_WeeklyPredicate ==
    LET L == "weekly_review_check"
        e == last_eval[L]
    IN  Settled(L) =>
            ( Delivered(L) <=>
                /\ weekday(LocalTime(e)) = WeekdayNamed(e.config.weekly_review_day)
                /\ hour(LocalTime(e)) = e.config.weekly_review_hour
                /\ minute(LocalTime(e)) = 0 )

---------------------------------------------------------------------------
(* C5: an activity-check evaluation is due if and only if                   *)
(* last_activity_check is unset or at least activity_check_interval         *)
(* minutes have passed since it; so, T being the time of the user's         *)
(* previous due evaluation (same interval m), an evaluation before T + m    *)
(* minutes is not due and one at or after T + m minutes is due.             *)

C5_DueIffIntervalElapsed ==
    LET e == last_eval["activity_check"]
        m == e.config.activity_check_interval
    IN  e.user # 0 =>
            /\ (e.verdict = "due") <=>
                    \/ e.last_check = None
                    \/ e.at - fromisoformat(e.last_check) >= m * 60
            /\ (e.prev_due.set /\ e.prev_due.interval = m) =>
                    ((e.verdict = "due") <=> (e.at - e.prev_due.at >= m * 60))

---------------------------------------------------------------------------
(* C6: every due activity-check evaluation of a tracked user leaves         *)
(* last_activity_check at the evaluation's time, in memory and persisted,   *)
(* whatever the sample decided.                                             *)

C6_DueEvaluationStoresCheckTime ==
    [][ ( /\ DueEvaluationEnds
          /\ last_eval'["activity_check"].user \in DOMAIN user_data' )
        => CheckTimeStored ]_vars

---------------------------------------------------------------------------
(* C7: a due evaluation whose dispatch fails at the messaging boundary      *)
(* (fetch_user or send raises) still leaves last_activity_check at the      *)
(* evaluation's time, persisted in the same tick.                           *)

C7_FailedDispatchStoresCheckTime ==
    [][ ( /\ DueEvaluationEnds
          /\ last_eval'["activity_check"].outcome = "failed"
          /\ last_eval'["activity_check"].user \in DOMAIN user_data' )
        => CheckTimeStored ]_vars

---------------------------------------------------------------------------
(* C8: two consecutive due evaluations of a continuously tracked user with  *)
(* an unchanged interval are at least activity_check_interval minutes       *)
(* apart, whatever the outcome of the dispatch.                             *)

C8_DueEvaluationsAnIntervalApart ==
    LET e == last_eval["activity_check"] IN
    ( /\ e.verdict = "due"
      /\ e.prev_due.set
      /\ e.prev_due.interval = e.config.activity_check_interval )
    => e.at - e.prev_due.at >= e.config.activity_check_interval * 60

---------------------------------------------------------------------------
(* C9: an activity-check evaluation that reads activity_check_probability   *)
(* 0 for a due user sends no message and stores the evaluation time as      *)
(* last_activity_check; and every activity message delivered was selected   *)
(* by an evaluation that read a probability other than 0.                   *)

\* This step ends an evaluation by activity_check that found the user due and
\* read probability 0
ZeroProbabilityEvaluation ==
    /\ last_eval'["activity_check"] # last_eval["activity_check"]
    /\ last_eval'["activity_check"].verdict = "due"
    /\ last_eval'["activity_check"].config.activity_check_probability = 0

---------------------------------------------------------------------------
(* C10: while a user's record lives (no /stop in between), a set            *)
(* last_activity_check stays set and never decreases, whatever step is      *)
(* taken: a loop's tick, a command, an inbound message.                     *)

C10_LastActivityCheckMonotonic ==
    [][ \A u \in DOMAIN user_data \cap DOMAIN user_data' :
            user_data[u].last_activity_check # None =>
                /\ user_data'[u].last_activity_check # None
                /\ fromisoformat(user_data'[u].last_activity_check)
                       >= fromisoformat(user_data[u].last_activity_check)
      ]_vars

C10_Witness ==
    LET e == last_eval["activity_check"] IN
    /\ e.user \in DOMAIN user_data
    /\ e.last_check # None
    /\ e.verdict = "due"
    /\ fromisoformat(e.last_check) < e.at
    /\ user_data[e.user].last_activity_check = isoformat(e.at)
    /\ user_data[e.user].last_interaction # None

---------------------------------------------------------------------------
(* C11: when a tick of morning_check, evening_review or weekly_review_check *)
(* that evaluated a user whose stored timezone names no zone has ended,     *)
(* every other user tracked since before the tick was evaluated in it, and  *)
(* was sent the loop's message if and only if the loop's predicate held     *)
(* for that user's (unchanged) config at that user's local time.            *)

\* The record's stored timezone names no zone
Malformed(record) == record.config.timezone \notin ValidZones

\* The predicate the loop L is to apply to a config at time t
ShouldFire(L, config, t) ==
    LET user_time == t + ZoneOffset(config.timezone) IN
    IF L \in DailyLoops
    THEN hour(user_time) = config[HourKey(L)] /\ minute(user_time) = 0
    ELSE /\ weekday(user_time) = WeekdayNamed(config.weekly_review_day)
         /\ hour(user_time) = config.weekly_review_hour
         /\ minute(user_time) = 0

\* The tick of loop L that ended evaluated a malformed user
MalformedUserSkipped(L) ==
    /\ pc[L] = "sleep"
    /\ \E x \in evaluated[L] :
          x.user \in DOMAIN user_data /\ Malformed(user_data[x.user])

\* User u, well-formed, has been tracked with the config of its opt-in since
\* before the tick of evaluated[L]
TrackedThrough(L, u) ==
    /\ u \in DOMAIN user_data
    /\ ~Malformed(user_data[u])
    /\ u \notin customised
    /\ \A x \in evaluated[L] : fromisoformat(user_data[u].joined_date) < x.at

C11_MalformedUserIsolated ==
    \A L \in Loops \ {"activity_check"} :
        MalformedUserSkipped(L) =>
            \A u \in Users :
                TrackedThrough(L, u) =>
                    \E x \in evaluated[L] :
                        /\ x.user = u
                        /\ (\E f \in failed : f.loop = L /\ f.user = u /\ f.at = x.at)
                           \/ ( (\E m \in sent : m.loop = L /\ m.user = u /\ m.at = x.at)
                                <=> ShouldFire(L, user_data[u].config, x.at) )

---------------------------------------------------------------------------
(* C12: a dispatch that raises at fetch_user or send, in any loop, leaves   *)
(* the loop in its for statement with its iterator as it was; and once a    *)
(* tick in which a dispatch raised has ended, every user tracked since      *)
(* before the tick has been evaluated in it.                                *)

\* Loop L's tick has ended and a dispatch of that tick raised
TickWithFailureEnded(L) ==
    /\ pc[L] = "sleep"
    /\ \E f \in failed : \E x \in evaluated[L] :
          f.loop = L /\ f.user = x.user /\ f.at = x.at

---------------------------------------------------------------------------
(* C13: the mapping holds a record of a user if and only if the user's      *)
(* latest /begin or /stop was a /begin (for a record of the loaded          *)
(* document: no /stop since); no tick, setter, message or resumed await     *)
(* re-creates a record that /stop removed.                                  *)

C13_RecordIffOptedIn == DOMAIN user_data = opted

\* A tick suspended at an await resumed after its user had opted out, the
\* send succeeded, and the user has no record
C13_Witness ==
    LET e == last_eval["activity_check"] IN
    /\ e.outcome = "sent"
    /\ e.user \notin opted
    /\ e.user \notin DOMAIN user_data
    /\ pc["activity_check"] = "sleep"

---------------------------------------------------------------------------
(* C14: a /begin that follows a /stop of a user whose config had been       *)
(* customised stores a record whose config equals the default               *)
(* configuration in every field and whose last_activity_check and           *)
(* last_interaction are unset.                                              *)

\* This step is a /begin that creates a record for u
OptsIn(u) == u \notin DOMAIN user_data /\ u \in DOMAIN user_data'

C14_FreshConfigAfterReopt ==
    [][ \A u \in Users :
            OptsIn(u) =>
                /\ user_data'[u].config = default_config
                /\ user_data'[u].last_activity_check = None
                /\ user_data'[u].last_interaction = None
                /\ load_data(disk').user_data[u] = user_data'[u]
      ]_vars

\* User 1, whose loaded record had a customised config, a last_activity_check
\* and then a last_interaction, has opted out and in again
C14_Witness ==
    /\ ncmd = 3
    /\ 1 \in opted
    /\ 1 \in DOMAIN user_data
    /\ user_data[1].last_interaction = None
    /\ user_data[1].config = default_config
    /\ user_data[1].joined_date = isoformat(now)
    /\ replying = {}

---------------------------------------------------------------------------
(* C15: self.default_config keeps the field values it had at start-up,      *)
(* whatever command or message is handled, and a step that changes one      *)
(* user's config leaves the config of every other user as it was.           *)

C15_DefaultConfigNeverMutated ==
    [][ /\ defaults'.value = default_config
        /\ \A u, v \in DOMAIN user_data \cap DOMAIN user_data' :
              (u # v /\ user_data'[u].config # user_data[u].config)
              => user_data'[v].config = user_data[v].config
      ]_vars

\* Two users opted in to this process, and a setter then changed the config
\* of one of them
C15_Witness ==
    \E u, v \in DOMAIN user_data :
        /\ u # v
        /\ user_data[u].joined_date = isoformat(now)
        /\ user_data[v].joined_date = isoformat(now)
        /\ u \in customised
        /\ user_data[u].config # default_config
        /\ user_data[v].config = default_config

---------------------------------------------------------------------------
(* C16: every step of a handler or tick that changes the in-memory mapping  *)
(* leaves the persisted document equal to the mapping: each mutation is     *)
(* saved before the handler yields control or ends.                         *)

C16_WriteThrough ==
    [][ user_data' # user_data => load_data(disk').user_data = user_data' ]_vars

---------------------------------------------------------------------------
(* C17: when the process has died, inside save_data or elsewhere, the       *)
(* persisted document is a complete document, and the load_data of the      *)
(* next start returns its mapping instead of raising.                       *)

C17_AtomicSave ==
    /\ active = "down" => load_data(disk).raised = "none"
    /\ active # "JSONDecodeError"

---------------------------------------------------------------------------
(* C18: every stored config has morning_check_hour, evening_review_hour     *)
(* and weekly_review_hour in 0..23, activity_check_probability in [0, 1]    *)
(* (0..100 hundredths) and activity_check_interval at least 15: a setter    *)
(* called with an argument outside the range stores nothing.                *)

InRange(config) ==
    /\ config.morning_check_hour \in 0..23
    /\ config.evening_review_hour \in 0..23
    /\ config.weekly_review_hour \in 0..23
    /\ config.activity_check_probability \in 0..100
    /\ config.activity_check_interval >= 15

C18_StoredConfigInRange ==
    \A u \in DOMAIN user_data : InRange(user_data[u].config)

---------------------------------------------------------------------------
(* C19: every stored weekly_review_day, that of a record just created by    *)
(* /begin included, is one of the keys MON .. SUN of the weekly check's     *)
(* day_map.                                                                 *)

C19_StoredWeekdayKnown ==
    \A u \in DOMAIN user_data :
        user_data[u].config.weekly_review_day \in DOMAIN day_map

---------------------------------------------------------------------------
(* C20: whenever a tracked user can have a command handled, /set_timezone   *)
(* with a valid zone identifier stores that identifier as config.timezone   *)
(* and persists it.                                                         *)

C20_ValidTimezoneStored ==
    \A u \in Users : \A z \in ValidZones :
        (Idle /\ u \in DOMAIN user_data /\ ncmd < Budget)
        => ENABLED ( /\ set_timezone(u, z)
                     /\ user_data'[u].config.timezone = z
                     /\ load_data(disk').user_data[u].config.timezone = z )

---------------------------------------------------------------------------
(* C27: no tick is aborted by a /begin or /stop handled while it is         *)
(* suspended at a dispatch await; and once a tick has ended, every user     *)
(* tracked since before the tick, and still tracked, was evaluated in it.   *)

C27_TickSnapshot ==
    \A L \in Loops :
        /\ pc[L] # "failed"
        /\ (pc[L] = "sleep" /\ evaluated[L] # {}) =>
              \A u \in DOMAIN user_data :
                  (\A x \in evaluated[L] : fromisoformat(user_data[u].joined_date) < x.at)
                  => \E x \in evaluated[L] : x.user = u

---------------------------------------------------------------------------
(* C28: a step in which activity_check writes a user's last_activity_check  *)
(* finds the user's record as the evaluation read it (same config, same     *)
(* last_activity_check), and the resumed body of a delivered check always   *)
(* finds the record there.                                                  *)

C28_ActivityWriteAtomic ==
    [][ LET L == "activity_check"
            e == last_eval'[L]
        IN  /\ \A u \in DOMAIN user_data \cap DOMAIN user_data' :
                  user_data'[u].last_activity_check # user_data[u].last_activity_check
                  => /\ e.user = u
                     /\ user_data[u].config = e.config
                     /\ user_data[u].last_activity_check = e.last_check
            /\ (pc[L] = "send" /\ e.outcome = "sent" /\ last_eval[L].outcome = "pending")
                  => cur[L].user \in DOMAIN user_data
      ]_vars

---------------------------------------------------------------------------
(* C30: no loop calls user.send for a user, and no check-in message is      *)
(* delivered to a user, whose latest /begin or /stop was a /stop; a tick    *)
(* suspended in fetch_user or send when the /stop was handled included.     *)

C30_NoCheckInAfterOptOut ==
    [][ /\ \A L \in Loops :
              (pc[L] = "fetch" /\ pc'[L] = "send") => cur[L].user \in opted
        /\ \A m \in sent' \ sent : m.user \in opted
      ]_vars

---------------------------------------------------------------------------
(* C21: no handling of a rejected command (/set_time with an hour outside   *)
(* 0..23 or an unknown check type, /set_timezone with an identifier that    *)
(* names no zone, /set_clockify with a key that fails authentication)       *)
(* changes the mapping or the persisted document.                           *)

\* A step that handles a command of user u that is to be rejected
RejectedCommand(u) ==
    \/ \E c \in CheckTypeArguments, h \in HourArguments :
          /\ h < 0 \/ h > 23 \/ c \notin {"morning_check", "evening_review"}
          /\ set_time(u, c, h)
    \/ \E z \in ZoneArguments : z \notin ValidZones /\ set_timezone(u, z)
    \/ \E k \in KeyArguments : set_clockify(u, k, FALSE)

C21_RejectedCommandStoresNothing ==
    \A u \in Users :
        ~ENABLED ( /\ RejectedCommand(u)
                   /\ \/ user_data' # user_data
                      \/ entries' # entries
                      \/ disk' # disk )

\* A tracked user with a customised, persisted config can have a command
\* rejected
C21_Witness ==
    \E u \in DOMAIN user_data :
        /\ ncmd > 0
        /\ user_data[u].config.activity_check_interval # default_config.activity_check_interval
        /\ user_data[u].config.clockify_enabled
        /\ load_data(disk).user_data = user_data
        /\ ENABLED RejectedCommand(u)

---------------------------------------------------------------------------
(* C22: every save_data call that raised was made outside any try           *)
(* statement that catches it: the error left the operation that saved.      *)

C22_SaveFailurePropagates ==
    \A e \in save_errors : ~e.caught

---------------------------------------------------------------------------
(* C23: an on_message of a user with time tracking enabled and a stored     *)
(* key, in which the time tracker failed (setup, or the fetch of the        *)
(* entries) and the send did not raise, has sent a reply, and the reply     *)
(* carries no report.                                                       *)

\* The report lines of the time tracker
ReportLines ==
    {generate_daily_report(get_time_entries(f))[1] : f \in FetchArguments}
        \cup {generate_weekly_report(get_time_entries(f))[1] : f \in FetchArguments}

C23_TrackerFailureDoesNotBlockReply ==
    ( /\ handled.user # 0
      /\ handled.clockify \in {"setup_failed", "fetch_failed"}
      /\ handled.raised \notin SendErrors )
    => /\ handled.relayed.type = "str"
       /\ handled.relayed.value # <<>>
       /\ \A line \in ReportLines : ~Contains(handled.relayed, line)

---------------------------------------------------------------------------
(* C24: a reply to a message for which the language model returned a text   *)
(* with a memory update and/or an end marker is that text without the       *)
(* whole memory update (up to the brace that closes its object) and         *)
(* without the marker.                                                      *)

\* The position of the brace that closes the object opened at or after i
RECURSIVE ClosingBrace(_, _, _)
ClosingBrace(tokens, i, depth) ==
    IF i > Len(tokens) THEN 0
    ELSE IF tokens[i] = "{" THEN ClosingBrace(tokens, i + 1, depth + 1)
    ELSE IF tokens[i] = "}" /\ depth = 1 THEN i
    ELSE IF tokens[i] = "}" THEN ClosingBrace(tokens, i + 1, depth - 1)
    ELSE ClosingBrace(tokens, i + 1, depth)

Sentinels == {"MEMORY_UPDATE:", "END_CONVERSATION: true", "END_CONVERSATION: false"}

\* The text without its memory update and its end marker
WithoutSentinels(tokens) ==
    LET start == find(tokens, "MEMORY_UPDATE:", 1)
        end == ClosingBrace(tokens, start, 0)
        cut == IF start = 0 \/ end = 0 THEN tokens
               ELSE SubSeq(tokens, 1, start - 1) \o SubSeq(tokens, end + 1, Len(tokens))
    IN  strip(SelectSeq(cut, LAMBDA t : t \notin Sentinels))

C24_SentinelsStripped ==
    ( /\ handled.user # 0
      /\ handled.created.type = "Message"
      /\ \E t \in Sentinels : Contains(Text(handled.created.value), t)
      /\ handled.raised = "none" )
    => handled.relayed = Text(WithoutSentinels(handled.created.value))

---------------------------------------------------------------------------
(* C25: when a reply has been sent to a message for which the language      *)
(* model returned a text with a memory update, the memory holds every key   *)
(* the update adds or updates, with its value, and none it deletes.         *)

C25_MemoryUpdateApplied ==
    ( /\ handled.user # 0
      /\ handled.created = Message(DirectiveText)
      /\ handled.relayed.type = "str" )
    => /\ \A k \in DOMAIN DirectiveInstructions.add :
              k \in DOMAIN memory /\ memory[k] = DirectiveInstructions.add[k]
       /\ \A k \in DOMAIN DirectiveInstructions.update :
              k \in DOMAIN memory /\ memory[k] = DirectiveInstructions.update[k]
       /\ \A k \in DirectiveInstructions.delete : k \notin DOMAIN memory

---------------------------------------------------------------------------
(* C26: the step that ends an on_message of a user who is still tracked     *)
(* leaves last_interaction at the time of receipt, in memory and in the     *)
(* document, whether the handler raised or not.                             *)

C26_LastInteractionPersisted ==
    [][ (handled' # handled /\ handled'.user \in DOMAIN user_data') =>
            /\ user_data'[handled'.user].last_interaction = isoformat(now)
            /\ handled'.user \in DOMAIN load_data(disk').user_data
            /\ load_data(disk').user_data[handled'.user].last_interaction = isoformat(now)
      ]_vars

---------------------------------------------------------------------------
(* C29: an on_message of a user whose time tracker answered, and whose      *)
(* send did not raise, has sent a reply that carries the weekly report      *)
(* when the message answers the weekly review and the daily report          *)
(* otherwise.                                                               *)

C29_ReportMatchesCheck ==
    ( /\ handled.user # 0
      /\ handled.clockify = "ok"
      /\ handled.raised \notin SendErrors )
    => IF handled.answers = "weekly_review_check"
       THEN Contains(handled.relayed, generate_weekly_report(get_time_entries("entries"))[1])
       ELSE Contains(handled.relayed, generate_daily_report(get_time_entries("entries"))[1])

---------------------------------------------------------------------------
(* C32: /begin of a user who has a record changes neither the mapping (the  *)
(* user's joined_date, config, last_activity_check, last_interaction, logs  *)
(* and plans, and every other record) nor the persisted document.           *)

C32_BeginIdempotent ==
    \A u \in DOMAIN user_data :
        ~ENABLED ( /\ begin_tracking(u)
                   /\ \/ user_data' # user_data
                      \/ entries' # entries
                      \/ disk' # disk )

\* A tracked user whose record no longer is the one add_user stores (config
\* changed, message received) can invoke /begin
C32_Witness ==
    \E u \in DOMAIN user_data :
        /\ user_data[u].config # default_config
        /\ user_data[u].last_interaction # None
        /\ user_data[u].joined_date # isoformat(now)
        /\ load_data(disk).user_data = user_data
        /\ ENABLED begin_tracking(u)

---------------------------------------------------------------------------
(* C33: no step of a configuration command of user u changes, of the whole  *)
(* mapping, more than the command's own fields of u's config: set_time the  *)
(* hour of its check type, set_weekly_review the weekly day and hour,       *)
(* set_activity_check the interval and the probability, set_timezone the    *)
(* timezone, set_clockify the key and the enabled flag, disable_clockify    *)
(* the enabled flag (the key stays); for a user without a record it changes *)
(* neither the mapping nor the document.                                    *)

\* This step changes at most the given fields of u's config
Frame(u, fields) ==
    /\ entries' = entries
    /\ DOMAIN user_data' = DOMAIN user_data
    /\ \A v \in DOMAIN user_data \ {u} : user_data'[v] = user_data[v]
    /\ u \in DOMAIN user_data =>
          /\ user_data'[u] = [user_data[u] EXCEPT !.config = user_data'[u].config]
          /\ DOMAIN user_data'[u].config = DOMAIN user_data[u].config
          /\ \A f \in DOMAIN user_data[u].config \ fields :
                user_data'[u].config[f] = user_data[u].config[f]
    /\ u \notin DOMAIN user_data => disk' = disk

\* Some step of the command changes more than the given fields
Breaks(command, u, fields) == ENABLED (command /\ ~Frame(u, fields))

C33_SetterFrame ==
    \A u \in Users :
        /\ \A c \in CheckTypeArguments, h \in HourArguments :
              ~Breaks(set_time(u, c, h), u, {HourKey(c)})
        /\ \A d \in DayInputs, h \in HourArguments :
              ~Breaks(set_weekly_review(u, d, h), u,
                      {"weekly_review_day", "weekly_review_hour"})
        /\ \A i \in IntervalArguments, p \in ProbabilityArguments :
              ~Breaks(set_activity_check(u, i, p), u,
                      {"activity_check_interval", "activity_check_probability"})
        /\ \A z \in ZoneArguments : ~Breaks(set_timezone(u, z), u, {"timezone"})
        /\ \A k \in KeyArguments, r \in BOOLEAN :
              ~Breaks(set_clockify(u, k, r), u, {"clockify_api_key", "clockify_enabled"})
        /\ ~Breaks(disable_clockify(u), u, {"clockify_enabled"})

\* Three setters have acted on a user (the evening hour, the key, the flag)
\* next to another tracked user, and the key is still stored
C33_Witness ==
    \E u, v \in DOMAIN user_data :
        /\ u # v
        /\ ncmd = 3
        /\ user_data[u].config.evening_review_hour # default_config.evening_review_hour
        /\ user_data[u].config.clockify_api_key # None
        /\ ~user_data[u].config.clockify_enabled
        /\ user_data[u].config.activity_check_interval # default_config.activity_check_interval
        /\ load_data(disk).user_data = user_data

---------------------------------------------------------------------------
(* C31: when an activity-check message is delivered to a user who was       *)
(* delivered one earlier in the same tracking session, and both             *)
(* evaluations read the same interval, the evaluation that triggered it is  *)
(* at least that interval (in minutes) after the evaluation that triggered  *)
(* the earlier one.                                                         *)

C31_DeliveriesAnIntervalApart ==
    [][ \A u \in Users :
          ( /\ last_sent'[u] # last_sent[u]
            /\ last_sent[u].set
            /\ last_sent'[u].set
            /\ last_sent'[u].interval = last_sent[u].interval )
          => last_sent'[u].at - last_sent[u].at >= last_sent[u].interval * 60
      ]_vars

\* A user who was never stopped has been delivered two activity messages
\* whose evaluations read the same interval
C31_Witness ==
    \E u \in DOMAIN user_data :
        /\ ncmd = 0
        /\ last_sent[u].set
        /\ \E m \in sent :
              /\ m.loop = "activity_check"
              /\ m.user = u
              /\ m.at < last_sent[u].at
              /\ m.config.activity_check_interval = last_sent[u].interval

====
